---- MODULE Spec2Model ----
(***************************************************************************)
(* The terminal chat client of moringa-school-chatbot/src/main.rs: the     *)
(* dialogue state machine of run_app (emit a bot turn, animate it, poll    *)
(* one input event, route a submitted line), the typing animation of       *)
(* ChatMessage::update_typing and the layout pass of ui / render_message / *)
(* wrap_text.                                                              *)
(*                                                                         *)
(* Strings are sequences of one-character strings, so that trimming,       *)
(* lower-casing, prefix tests, character counts and word wrapping are      *)
(* computed as the code computes them.                                     *)
(***************************************************************************)
EXTENDS Integers, Sequences, FiniteSets, TLC

VARIABLES
    flow,                \* the parsed ConversationFlow.nodes (read-only)
    order,               \* per node, the order in which its options HashMap enumerates
    selected_style,      \* run_app: the style picked at the start
    current_node_id,     \* run_app local
    waiting_for_input,   \* run_app local
    conversation_ended,  \* run_app local
    typing_in_progress,  \* run_app local, computed after the animation pass
    messages,            \* App.messages
    input,               \* App.input
    scroll_offset,       \* App.scroll_offset
    auto_scroll,         \* App.auto_scroll
    transcript_file,     \* App.transcript_file: whether writes to it succeed
    transcript,          \* the records log_message handed to write_all
    pc,                  \* position of the loop of run_app
    area,                \* inner_area of the chat block at the last draw
    frame,               \* the message boxes rendered by the last draw
    wrapped_lines        \* the lines returned by the last call of wrap_text

vars == <<flow, order, selected_style, transcript_file, current_node_id,
          waiting_for_input,
          conversation_ended, typing_in_progress, messages, input,
          scroll_offset, auto_scroll, transcript, pc, area, frame,
          wrapped_lines>>

(***************************************************************************)
(* Bounds of the model.                                                    *)
(***************************************************************************)
\* Longest history the session is followed to.
MaxMessages == 5
\* Every string literal of the program is cut to its first MaxLiteral characters.
MaxLiteral == 2
\* How many of the STYLES the random pick is drawn from.
MaxStyles == 2
\* Longest history the layout pass is given.
MaxLayoutMessages == 3
\* Longest text given to wrap_text on its own.
MaxWrapLen == 5
\* Widest max_width given to wrap_text on its own.
MaxWrapWidth == 4
\* Longest history the scroll keys are followed to.
MaxScrollMessages == 13

(***************************************************************************)
(* Option<T>.                                                              *)
(***************************************************************************)
None == <<>>
Some(x) == <<x>>
IsSome(o) == Len(o) = 1
Unwrap(o) == o[1]

Min(a, b) == IF a <= b THEN a ELSE b
\* usize / u16 saturating_sub
SaturatingSub(a, b) == IF a >= b THEN a - b ELSE 0

(***************************************************************************)
(* str operations.                                                         *)
(***************************************************************************)
Upper == <<"A","B","C","D","E","F","G","H","I","J","K","L","M",
           "N","O","P","Q","R","S","T","U","V","W","X","Y","Z">>
Lower == <<"a","b","c","d","e","f","g","h","i","j","k","l","m",
           "n","o","p","q","r","s","t","u","v","w","x","y","z">>

\* char::to_lowercase on the letters of the model's alphabet
LowerChar(c) ==
    IF \E i \in 1..26 : Upper[i] = c
    THEN Lower[CHOOSE i \in 1..26 : Upper[i] = c]
    ELSE c

\* str::to_lowercase
ToLowercase(s) == [i \in 1..Len(s) |-> LowerChar(s[i])]

\* char::is_whitespace
IsWhitespace(c) == c \in {" ", "\t", "\n"}

RECURSIVE TrimStart(_)
TrimStart(s) ==
    IF s # <<>> /\ IsWhitespace(Head(s)) THEN TrimStart(Tail(s)) ELSE s

RECURSIVE TrimEnd(_)
TrimEnd(s) ==
    IF s # <<>> /\ IsWhitespace(s[Len(s)])
    THEN TrimEnd(SubSeq(s, 1, Len(s) - 1))
    ELSE s

\* str::trim
Trim(s) == TrimEnd(TrimStart(s))

\* str::starts_with
StartsWith(s, prefix) ==
    /\ Len(prefix) <= Len(s)
    /\ SubSeq(s, 1, Len(prefix)) = prefix

\* str::split_whitespace: the maximal runs of non-whitespace characters
RECURSIVE SplitWhitespace(_)
SplitWhitespace(s) ==
    LET t == TrimStart(s)
        n == IF \E i \in 1..Len(t) : IsWhitespace(t[i])
             THEN (CHOOSE i \in 1..Len(t) :
                      /\ IsWhitespace(t[i])
                      /\ \A j \in 1..(i - 1) : ~IsWhitespace(t[j])) - 1
             ELSE Len(t)
    IN  IF t = <<>> THEN <<>>
        ELSE <<SubSeq(t, 1, n)>> \o SplitWhitespace(SubSeq(t, n + 1, Len(t)))

\* A string literal of the program, cut to the model's bound.
Lit(s) == SubSeq(s, 1, Min(Len(s), MaxLiteral))

(***************************************************************************)
(* The string literals of the program.                                     *)
(***************************************************************************)
START == <<"s","t","a","r","t">>
EXIT_CONVERSATION ==
    <<"e","x","i","t","_","c","o","n","v","e","r","s","a","t","i","o","n">>
EXIT_COMMANDS ==
    << <<"n","o">>, <<"b","y","e">>, <<"q","u","i","t">>, <<"e","x","i","t">> >>
STYLES == <<"base", "formal", "casual", "humorous", "inquisitive",
            "narrative", "concise", "encouraging", "playful">>
APOLOGY ==
    <<"I"," ","a","p","o","l","o","g","i","z","e",","," ","b","u","t"," ",
      "I"," ","s","e","e","m"," ","t","o"," ","h","a","v","e"," ","e","n",
      "c","o","u","n","t","e","r","e","d"," ","a"," ","c","o","n","v","e",
      "r","s","a","t","i","o","n","a","l"," ","g","l","i","t","c","h",".">>
ERROR_PREFIX ==
    <<"E","R","R","O","R",":"," ","I","n","v","a","l","i","d"," ","n","o",
      "d","e"," ","I","D"," ","'">>
ERROR_SUFFIX ==
    <<"'"," ","f","o","u","n","d","."," ","E","x","i","t","i","n","g",".">>
HELP_PREFIX ==
    <<"I","'","m"," ","s","o","r","r","y",","," ","I"," ","d","i","d","n",
      "'","t"," ","u","n","d","e","r","s","t","a","n","d"," ","t","h","a",
      "t","."," ","P","l","e","a","s","e"," ","c","h","o","o","s","e"," ",
      "f","r","o","m",":"," ">>
NO_OPTIONS ==
    <<"N","o"," ","o","p","t","i","o","n","s"," ","a","v","a","i","l","a",
      "b","l","e",".">>
\* Duration::from_millis(5) and Duration::from_millis(45) of update_typing
BASE_DELAY == 5
WORD_DELAY == 45
\* app.scroll_up(10)
MIN_VISIBLE == 10
\* buffer_lines of ui
BUFFER_LINES == 3
\* (inner_area.width as usize).saturating_sub(10)
WIDTH_MARGIN == 10

(***************************************************************************)
(* ChatMessage.  last_char_time is None or Some(e), where e is the time    *)
(* elapsed since the recorded instant as of the latest reading of the      *)
(* clock, saturated at WORD_DELAY, the longest duration update_typing      *)
(* compares it against.                                                    *)
(***************************************************************************)
\* ChatMessage::new
ChatMessageNew(text, is_bot) ==
    [text |-> text, is_bot |-> is_bot, displayed_chars |-> 0,
     last_char_time |-> None, complete |-> FALSE]

\* Mutant of UserMessage: the message is left as ChatMessage::new builds it.
UserMessage_AsNew(text) == ChatMessageNew(text, FALSE)

\* The user message of the Enter handler: built complete, all characters shown.
UserMessage(text) ==
    [ChatMessageNew(text, FALSE) EXCEPT !.complete = TRUE,
                                        !.displayed_chars = Len(text)]

\* Mutant of RequiredDelay: the base delay also after a space.
RequiredDelay_AlwaysBase(msg) == BASE_DELAY

\* The delay update_typing requires before the next character.
RequiredDelay(msg) ==
    IF msg.displayed_chars > 0
    THEN IF msg.text[msg.displayed_chars] = " " THEN WORD_DELAY ELSE BASE_DELAY
    ELSE BASE_DELAY

\* elapsed = now.duration_since(last_time), dt after the previous reading
Elapsed(msg, dt) == Min(Unwrap(msg.last_char_time) + dt, WORD_DELAY)

ShouldAddChar(msg, dt) ==
    IF msg.last_char_time = None THEN TRUE
    ELSE Elapsed(msg, dt) >= RequiredDelay(msg)

\* Mutant of UpdateTyping: the message is marked complete one character early.
UpdateTyping_CompletesEarly(msg, dt) ==
    IF msg.complete THEN msg
    ELSE IF ShouldAddChar(msg, dt) /\ msg.displayed_chars < Len(msg.text)
         THEN [msg EXCEPT !.displayed_chars = @ + 1,
                          !.last_char_time = Some(0),
                          !.complete = (msg.displayed_chars + 2 >= Len(msg.text))]
         ELSE IF msg.last_char_time = None THEN msg
              ELSE [msg EXCEPT !.last_char_time = Some(Elapsed(msg, dt))]

\* ChatMessage::update_typing, called dt after the previous reading of the clock
UpdateTyping(msg, dt) ==
    IF msg.complete THEN msg
    ELSE IF ShouldAddChar(msg, dt) /\ msg.displayed_chars < Len(msg.text)
         THEN [msg EXCEPT !.displayed_chars = @ + 1,
                          !.last_char_time = Some(0),
                          !.complete = (msg.displayed_chars + 1 >= Len(msg.text))]
         ELSE IF msg.last_char_time = None THEN msg
              ELSE [msg EXCEPT !.last_char_time = Some(Elapsed(msg, dt))]

\* ChatMessage::get_displayed_text
GetDisplayedText(msg) == SubSeq(msg.text, 1, Min(msg.displayed_chars, Len(msg.text)))

\* The time that passes between two passes of the loop: less than the base
\* delay, the base delay, the word-boundary delay.
Delays == {0, BASE_DELAY, WORD_DELAY}

(***************************************************************************)
(* Conversation graphs: Node and ConversationFlow.nodes.  A node is        *)
(* [node_type, message, options, next_node]; message maps style names to   *)
(* texts, options maps trigger keywords to node ids.                       *)
(***************************************************************************)
NoOptions == [k \in {} |-> <<>>]

NodeA == <<"a">>
NodeB == <<"b">>
NodeX == <<"x">>

\* Two keywords of start are prefixes of "yes" and lead to different nodes;
\* a has a keyword that is an exit word, and a default next node.
GraphA ==
    (START :> [node_type |-> "question",
               message   |-> [base |-> <<"h","i">>, formal |-> <<"o"," ","k">>],
               options   |-> (<<"Y">> :> NodeA) @@ (<<"y","e","s">> :> NodeB),
               next_node |-> None])
 @@ (NodeA :> [node_type |-> "question",
               message   |-> [base |-> <<"a">>],
               options   |-> (<<"n","o">> :> NodeB),
               next_node |-> Some(START)])
 @@ (NodeB :> [node_type |-> "end",
               message   |-> [base |-> <<"b">>, formal |-> <<"b">>],
               options   |-> NoOptions,
               next_node |-> None])
 @@ (EXIT_CONVERSATION :>
              [node_type |-> "end",
               message   |-> [base |-> <<"b","y","e">>, formal |-> <<"b","y","e">>],
               options   |-> NoOptions,
               next_node |-> None])

\* A dangling option target, and no exit_conversation node.
GraphB ==
    (START :> [node_type |-> "question",
               message   |-> [base |-> <<"h","i">>],
               options   |-> (<<"Y">> :> NodeX),
               next_node |-> None])

\* start has a default next node; a has neither options nor a default;
\* exit_conversation is not an end node.
GraphC ==
    (START :> [node_type |-> "question",
               message   |-> [base |-> <<"h","i">>, formal |-> <<"h","i">>],
               options   |-> NoOptions,
               next_node |-> Some(NodeA)])
 @@ (NodeA :> [node_type |-> "question",
               message   |-> [base |-> <<"a">>, formal |-> <<"a">>],
               options   |-> NoOptions,
               next_node |-> None])
 @@ (EXIT_CONVERSATION :>
              [node_type |-> "question",
               message   |-> [base |-> <<"b","y","e">>, formal |-> <<"b","y","e">>],
               options   |-> NoOptions,
               next_node |-> None])

\* The text of start is the empty string in one style.
GraphD ==
    (START :> [node_type |-> "question",
               message   |-> [base |-> <<>>, formal |-> <<"h","i">>],
               options   |-> NoOptions,
               next_node |-> None])

\* No start node.
GraphE ==
    (NodeA :> [node_type |-> "question",
               message   |-> [base |-> <<"a">>, formal |-> <<"a">>],
               options   |-> NoOptions,
               next_node |-> None])

Graphs == {GraphA, GraphB, GraphC, GraphD, GraphE}

\* The orders in which a HashMap with the key set S can enumerate its entries.
Enumerations(S) ==
    {s \in [1..Cardinality(S) -> S] :
        \A i, j \in 1..Cardinality(S) : i # j => s[i] # s[j]}

\* One enumeration order for the options of each node of graph g.
Orders(g) ==
    {o \in [DOMAIN g -> UNION {Enumerations(DOMAIN g[n].options) : n \in DOMAIN g}] :
        \A n \in DOMAIN g : o[n] \in Enumerations(DOMAIN g[n].options)}

(***************************************************************************)
(* The lines the user types, and the keys that type them.                  *)
(***************************************************************************)
Lines == { <<"n","o"," ","t">>, <<"Y","E","S">>, <<" ">> }
Prefixes(s) == {SubSeq(s, 1, n) : n \in 0..Len(s)}
TypedInputs == UNION {Prefixes(l) : l \in Lines}
Alphabet == UNION {{l[i] : i \in 1..Len(l)} : l \in Lines}

(***************************************************************************)
(* Routing of a submitted line (the Enter handler of run_app).             *)
(***************************************************************************)
\* node.options.iter().find_map(..): the target of the first option, in the
\* map's enumeration order, whose lower-cased keyword is a prefix of the input.
RECURSIVE FindMap(_, _, _)
FindMap(enumeration, options, user_input) ==
    IF enumeration = <<>> THEN None
    ELSE IF StartsWith(user_input, ToLowercase(Head(enumeration)))
         THEN Some(options[Head(enumeration)])
         ELSE FindMap(Tail(enumeration), options, user_input)

\* Mutant of IsExitCommand: exit words matched as prefixes of the input.
IsExitCommand_Prefix(user_input) ==
    \E i \in 1..Len(EXIT_COMMANDS) : StartsWith(user_input, EXIT_COMMANDS[i])

\* Mutant of IsExitCommand: the first exit word is left out of the scan.
IsExitCommand_SkipsFirst(user_input) ==
    \E i \in 2..Len(EXIT_COMMANDS) : EXIT_COMMANDS[i] = user_input

\* EXIT_COMMANDS.iter().any(|&cmd| cmd == user_input)
IsExitCommand(user_input) ==
    \E i \in 1..Len(EXIT_COMMANDS) : EXIT_COMMANDS[i] = user_input

\* Mutant of RouteTarget: the exit words are tested before the option match.
RouteTarget_ExitFirst(node, enumeration, user_input) ==
    LET next_id == FindMap(enumeration, node.options, user_input)
    IN  IF IsExitCommand(user_input) THEN Some(EXIT_CONVERSATION)
        ELSE IF IsSome(next_id) THEN next_id
        ELSE IF IsSome(node.next_node) THEN node.next_node
        ELSE None

\* The if/else chain on next_id: Some(id) names the node routed to, None is
\* the last branch (the input is not understood).
RouteTarget(node, enumeration, user_input) ==
    LET next_id == FindMap(enumeration, node.options, user_input)
    IN  IF next_id = None /\ IsExitCommand(user_input) THEN Some(EXIT_CONVERSATION)
        ELSE IF IsSome(next_id) THEN next_id
        ELSE IF IsSome(node.next_node) THEN node.next_node
        ELSE None

\* format!("'{}'", k)
Quoted(k) == <<"'">> \o k \o <<"'">>

\* .map(|k| format!("'{}'", k)).collect::<Vec<String>>().join(", ")
RECURSIVE JoinQuoted(_)
JoinQuoted(keys) ==
    IF keys = <<>> THEN <<>>
    ELSE IF Len(keys) = 1 THEN Quoted(keys[1])
    ELSE Quoted(keys[1]) \o <<",", " ">> \o JoinQuoted(Tail(keys))

\* Mutant of OptionsList: with two or more keywords the last one is left out.
OptionsList_DropsLast(available_options) ==
    IF Len(available_options) = 0 THEN Lit(NO_OPTIONS)
    ELSE IF Len(available_options) = 1 THEN Quoted(available_options[1])
    ELSE JoinQuoted(SubSeq(available_options, 1, Len(available_options) - 1))

\* options_list, from available_options = node.options.keys().collect()
OptionsList(available_options) ==
    IF Len(available_options) = 0 THEN Lit(NO_OPTIONS)
    ELSE IF Len(available_options) = 1 THEN Quoted(available_options[1])
    ELSE LET last_index == Len(available_options)
         IN  JoinQuoted(SubSeq(available_options, 1, last_index - 1))
                \o <<" ", "o", "r", " ">> \o Quoted(available_options[last_index])

\* format!("I'm sorry, I didn't understand that. Please choose from: {}", options_list)
HelpMessage(available_options) == Lit(HELP_PREFIX) \o OptionsList(available_options)

\* format!("ERROR: Invalid node ID '{}' found. Exiting.", current_node_id)
ErrorMessage(node_id) == Lit(ERROR_PREFIX) \o node_id \o Lit(ERROR_SUFFIX)

\* node.message.get(*selected_style) ... .unwrap_or(apology)
MessageText(node, style) ==
    IF style \in DOMAIN node.message THEN node.message[style] ELSE Lit(APOLOGY)

\* Mutant of AnyBotIncomplete: only the first message is looked at.
AnyBotIncomplete_FirstOnly(msgs) ==
    msgs # <<>> /\ msgs[1].is_bot /\ ~msgs[1].complete

\* app.messages.iter().any(|msg| msg.is_bot && !msg.complete)
AnyBotIncomplete(msgs) ==
    \E i \in 1..Len(msgs) : msgs[i].is_bot /\ ~msgs[i].complete

\* Mutant of LogRecord: the sender is not looked at.
LogRecord_AlwaysBot(text, is_bot) ==
    [sender |-> "Bot", text |-> text, written |-> transcript_file = "writable"]

\* App::log_message: one record per call, one write_all and one flush; both
\* results are discarded (let _ =).  written tells whether the line reached
\* the file.
LogRecord(text, is_bot) ==
    [sender |-> IF is_bot THEN "Bot" ELSE "User", text |-> text,
     written |-> transcript_file = "writable"]

(***************************************************************************)
(* Init: main has parsed a graph and built App::new; run_app has picked a  *)
(* style and set its locals.                                               *)
(***************************************************************************)
DefaultArea == [width |-> 12, height |-> 5]

Init ==
    /\ flow \in Graphs
    /\ order \in Orders(flow)
    /\ selected_style \in {STYLES[i] : i \in 1..Min(MaxStyles, Len(STYLES))}
    /\ current_node_id = START
    /\ waiting_for_input = FALSE
    /\ conversation_ended = FALSE
    /\ typing_in_progress = FALSE
    /\ messages = <<>>
    /\ input = <<>>
    /\ scroll_offset = 0
    /\ auto_scroll = TRUE
    /\ transcript_file = "writable"
    /\ transcript = <<>>
    /\ pc = "top"
    /\ area = DefaultArea
    /\ frame = <<>>
    /\ wrapped_lines = <<>>

\* What no step of the session changes.
Fixed ==
    UNCHANGED <<flow, order, selected_style, transcript_file, area, frame,
                wrapped_lines>>

(***************************************************************************)
(* Top of the loop: process the current node if not waiting for input.     *)
(***************************************************************************)
\* Mutant of EmitMissingNode: the missing node is passed over in silence and
\* the loop waits for input.
EmitMissingNode_OnlyWaits ==
    /\ pc = "top"
    /\ ~waiting_for_input /\ ~conversation_ended
    /\ current_node_id \notin DOMAIN flow
    /\ waiting_for_input' = TRUE
    /\ pc' = "top"
    /\ UNCHANGED <<current_node_id, conversation_ended, typing_in_progress,
                   messages, input, scroll_offset, auto_scroll, transcript>>
    /\ Fixed

\* Mutant of EmitMissingNode: the conversation is not marked as ended.
EmitMissingNode_NotEnded ==
    /\ pc = "top"
    /\ ~waiting_for_input /\ ~conversation_ended
    /\ current_node_id \notin DOMAIN flow
    /\ Len(messages) < MaxMessages
    /\ messages' = Append(messages, ChatMessageNew(ErrorMessage(current_node_id), TRUE))
    /\ auto_scroll' = TRUE
    /\ transcript' = Append(transcript, LogRecord(ErrorMessage(current_node_id), TRUE))
    /\ conversation_ended' = FALSE
    /\ waiting_for_input' = TRUE
    /\ pc' = "top"
    /\ UNCHANGED <<current_node_id, typing_in_progress, input, scroll_offset>>
    /\ Fixed

\* The node id is absent from the graph: error message, end, draw, continue.
EmitMissingNode ==
    /\ pc = "top"
    /\ ~waiting_for_input /\ ~conversation_ended
    /\ current_node_id \notin DOMAIN flow
    /\ Len(messages) < MaxMessages
    /\ messages' = Append(messages, ChatMessageNew(ErrorMessage(current_node_id), TRUE))
    /\ auto_scroll' = TRUE
    /\ transcript' = Append(transcript, LogRecord(ErrorMessage(current_node_id), TRUE))
    /\ conversation_ended' = TRUE
    /\ waiting_for_input' = TRUE
    /\ pc' = "top"
    /\ UNCHANGED <<current_node_id, typing_in_progress, input, scroll_offset>>
    /\ Fixed

\* Mutant of EmitNode: waiting_for_input is not set after the bot turn.
EmitNode_KeepsEmitting ==
    /\ pc = "top"
    /\ ~waiting_for_input /\ ~conversation_ended
    /\ current_node_id \in DOMAIN flow
    /\ Len(messages) < MaxMessages
    /\ LET node == flow[current_node_id]
           message_text == MessageText(node, selected_style)
       IN  /\ messages' = Append(messages, ChatMessageNew(message_text, TRUE))
           /\ auto_scroll' = TRUE
           /\ transcript' = Append(transcript, LogRecord(message_text, TRUE))
           /\ conversation_ended' =
                 IF node.node_type = "end" THEN TRUE ELSE conversation_ended
    /\ waiting_for_input' = waiting_for_input
    /\ pc' = "animate"
    /\ UNCHANGED <<current_node_id, typing_in_progress, input, scroll_offset>>
    /\ Fixed

\* The node is in the graph: its text for the selected style becomes a bot turn.
EmitNode ==
    /\ pc = "top"
    /\ ~waiting_for_input /\ ~conversation_ended
    /\ current_node_id \in DOMAIN flow
    /\ Len(messages) < MaxMessages
    /\ LET node == flow[current_node_id]
           message_text == MessageText(node, selected_style)
       IN  /\ messages' = Append(messages, ChatMessageNew(message_text, TRUE))
           /\ auto_scroll' = TRUE
           /\ transcript' = Append(transcript, LogRecord(message_text, TRUE))
           /\ conversation_ended' =
                 IF node.node_type = "end" THEN TRUE ELSE conversation_ended
    /\ waiting_for_input' = TRUE
    /\ pc' = "animate"
    /\ UNCHANGED <<current_node_id, typing_in_progress, input, scroll_offset>>
    /\ Fixed

\* Waiting for input, or ended: nothing to emit.
NothingToEmit ==
    /\ pc = "top"
    /\ waiting_for_input \/ conversation_ended
    /\ pc' = "animate"
    /\ UNCHANGED <<current_node_id, waiting_for_input, conversation_ended,
                   typing_in_progress, messages, input, scroll_offset,
                   auto_scroll, transcript>>
    /\ Fixed

(***************************************************************************)
(* terminal.draw(ui) comes next in the loop: it reads the App and changes  *)
(* nothing of the session, so the session steps leave it out; LayoutSpec   *)
(* below applies it to the histories the session builds.                   *)
(*                                                                         *)
(* The animation pass, dt after the previous one, then typing_in_progress. *)
(***************************************************************************)
Animate(dt) ==
    /\ pc = "animate"
    /\ messages' = [i \in 1..Len(messages) |->
                       IF messages[i].is_bot /\ ~messages[i].complete
                       THEN UpdateTyping(messages[i], dt)
                       ELSE messages[i]]
    /\ typing_in_progress' = AnyBotIncomplete(messages')
    /\ pc' = "input"
    /\ UNCHANGED <<current_node_id, waiting_for_input, conversation_ended,
                   input, scroll_offset, auto_scroll, transcript>>
    /\ Fixed

(***************************************************************************)
(* event::poll(10 ms) and the handler of the key that was read.            *)
(***************************************************************************)
\* What the handlers that end an iteration of the loop leave alone.
LoopAgain ==
    /\ pc' = "top"
    /\ UNCHANGED typing_in_progress
    /\ Fixed

\* poll times out: no event within 10 ms.
PollTimeout ==
    /\ pc = "input"
    /\ LoopAgain
    /\ UNCHANGED <<current_node_id, waiting_for_input, conversation_ended,
                   messages, input, scroll_offset, auto_scroll, transcript>>

\* A key without a handler, or an event that is not a key.
KeyOther ==
    /\ pc = "input"
    /\ LoopAgain
    /\ UNCHANGED <<current_node_id, waiting_for_input, conversation_ended,
                   messages, input, scroll_offset, auto_scroll, transcript>>

\* Mutant of KeyChar: the character is pushed even after the end.
KeyChar_Unguarded(c) ==
    /\ pc = "input"
    /\ Append(input, c) \in TypedInputs
    /\ input' = Append(input, c)
    /\ LoopAgain
    /\ UNCHANGED <<current_node_id, waiting_for_input, conversation_ended,
                   messages, scroll_offset, auto_scroll, transcript>>

\* KeyCode::Char(c)
KeyChar(c) ==
    /\ pc = "input"
    /\ conversation_ended \/ Append(input, c) \in TypedInputs
    /\ input' = IF ~conversation_ended THEN Append(input, c) ELSE input
    /\ LoopAgain
    /\ UNCHANGED <<current_node_id, waiting_for_input, conversation_ended,
                   messages, scroll_offset, auto_scroll, transcript>>

\* Mutant of KeyBackspace: pop is called on the history instead of the input.
KeyBackspace_PopsMessage ==
    /\ pc = "input"
    /\ messages' = IF ~conversation_ended /\ messages # <<>>
                   THEN SubSeq(messages, 1, Len(messages) - 1)
                   ELSE messages
    /\ LoopAgain
    /\ UNCHANGED <<current_node_id, waiting_for_input, conversation_ended,
                   input, scroll_offset, auto_scroll, transcript>>

\* KeyCode::Backspace (String::pop of an empty string does nothing)
KeyBackspace ==
    /\ pc = "input"
    /\ input' = IF ~conversation_ended /\ input # <<>>
                THEN SubSeq(input, 1, Len(input) - 1)
                ELSE input
    /\ LoopAgain
    /\ UNCHANGED <<current_node_id, waiting_for_input, conversation_ended,
                   messages, scroll_offset, auto_scroll, transcript>>

\* KeyCode::Esc
KeyEsc ==
    /\ pc = "input"
    /\ pc' = "exited"
    /\ UNCHANGED <<current_node_id, waiting_for_input, conversation_ended,
                   typing_in_progress, messages, input, scroll_offset,
                   auto_scroll, transcript>>
    /\ Fixed

\* Mutant of ScrollUp: the limit is tested with <= instead of <.
ScrollUp_OffByOne(offset, n_messages, max_messages) ==
    IF n_messages > max_messages /\ offset <= n_messages - max_messages
    THEN offset + 1
    ELSE offset

\* App::scroll_up
ScrollUp(offset, n_messages, max_messages) ==
    IF n_messages > max_messages /\ offset < n_messages - max_messages
    THEN offset + 1
    ELSE offset

\* App::scroll_down
ScrollDown(offset) == IF offset > 0 THEN offset - 1 ELSE offset

\* KeyCode::Up
KeyUp ==
    /\ pc = "input"
    /\ scroll_offset' = ScrollUp(scroll_offset, Len(messages), MIN_VISIBLE)
    /\ auto_scroll' = FALSE
    /\ LoopAgain
    /\ UNCHANGED <<current_node_id, waiting_for_input, conversation_ended,
                   messages, input, transcript>>

\* KeyCode::Down
KeyDown ==
    /\ pc = "input"
    /\ scroll_offset' = ScrollDown(scroll_offset)
    /\ auto_scroll' = FALSE
    /\ LoopAgain
    /\ UNCHANGED <<current_node_id, waiting_for_input, conversation_ended,
                   messages, input, transcript>>

\* KeyCode::Enter
KeyEnter ==
    /\ pc = "input"
    /\ IF conversation_ended
       THEN \* break
            /\ pc' = "exited"
            /\ UNCHANGED <<current_node_id, waiting_for_input, messages, input,
                           auto_scroll, transcript>>
       ELSE IF typing_in_progress
       THEN \* continue
            /\ pc' = "top"
            /\ UNCHANGED <<current_node_id, waiting_for_input, messages, input,
                           auto_scroll, transcript>>
       ELSE IF input = <<>>
       THEN /\ pc' = "top"
            /\ UNCHANGED <<current_node_id, waiting_for_input, messages, input,
                           auto_scroll, transcript>>
       ELSE LET user_input == ToLowercase(Trim(input))
                user_message == input
                pushed == Append(messages, UserMessage(user_message))
                logged == Append(transcript, LogRecord(user_message, FALSE))
            IN  /\ Len(messages) + 2 <= MaxMessages
                /\ input' = <<>>
                /\ IF current_node_id \notin DOMAIN flow
                   THEN \* flow.nodes.get(&current_node_id).unwrap() panics
                        /\ pc' = "panicked"
                        /\ messages' = pushed
                        /\ transcript' = logged
                        /\ UNCHANGED <<current_node_id, waiting_for_input, auto_scroll>>
                   ELSE LET node == flow[current_node_id]
                            available_options == order[current_node_id]
                            target == RouteTarget(node, available_options, user_input)
                        IN  /\ pc' = "top"
                            /\ IF IsSome(target)
                               THEN /\ current_node_id' = Unwrap(target)
                                    /\ waiting_for_input' = FALSE
                                    /\ messages' = pushed
                                    /\ transcript' = logged
                                    /\ UNCHANGED auto_scroll
                               ELSE LET help == HelpMessage(available_options)
                                    IN  /\ messages' = Append(pushed, ChatMessageNew(help, TRUE))
                                        /\ auto_scroll' = TRUE
                                        /\ transcript' = Append(logged, LogRecord(help, TRUE))
                                        /\ UNCHANGED <<current_node_id, waiting_for_input>>
    /\ UNCHANGED <<conversation_ended, typing_in_progress, scroll_offset>>
    /\ Fixed

Next ==
    \/ EmitMissingNode
    \/ EmitNode
    \/ NothingToEmit
    \/ \E dt \in Delays : Animate(dt)
    \/ PollTimeout
    \/ KeyOther
    \/ \E c \in Alphabet : KeyChar(c)
    \/ KeyBackspace
    \/ KeyEsc
    \/ KeyUp
    \/ KeyDown
    \/ KeyEnter

Spec == Init /\ [][Next]_vars

(***************************************************************************)
(* The session under the scheduling of run_app: the loop never stops by    *)
(* itself between two steps (every call in it returns: poll waits at most  *)
(* 10 ms), and the clock advances, so that again and again an animation    *)
(* pass comes a positive time after the previous one.                      *)
(***************************************************************************)
\* An animation pass that reads a later instant than the previous pass.
TimeAdvances == \E dt \in Delays \ {0} : Animate(dt)

LiveSpec == Init /\ [][Next]_vars /\ WF_vars(Next) /\ SF_vars(TimeAdvances)

(***************************************************************************)
(* The session with a transcript file that may reject every write (a full  *)
(* disk, a file system gone read-only after File::create succeeded).       *)
(***************************************************************************)
TranscriptInit ==
    /\ flow \in Graphs
    /\ order \in Orders(flow)
    /\ selected_style \in {STYLES[i] : i \in 1..Min(MaxStyles, Len(STYLES))}
    /\ transcript_file \in {"writable", "failing"}
    /\ current_node_id = START
    /\ waiting_for_input = FALSE
    /\ conversation_ended = FALSE
    /\ typing_in_progress = FALSE
    /\ messages = <<>>
    /\ input = <<>>
    /\ scroll_offset = 0
    /\ auto_scroll = TRUE
    /\ transcript = <<>>
    /\ pc = "top"
    /\ area = DefaultArea
    /\ frame = <<>>
    /\ wrapped_lines = <<>>

TranscriptSpec == TranscriptInit /\ [][Next]_vars

(***************************************************************************)
(* The layout pass: wrap_text, render_message and ui.  Only the vertical   *)
(* placement is modelled; heights are far below the u16 range.             *)
(***************************************************************************)
\* Mutant of WrapWords: the line under construction is not pushed at the end.
RECURSIVE WrapWords_DropsLastLine(_, _, _, _)
WrapWords_DropsLastLine(words, lines, current_line, max_width) ==
    IF words = <<>>
    THEN lines
    ELSE LET word == Head(words)
             flush == /\ Len(current_line) + Len(word) + 1 > max_width
                      /\ current_line # <<>>
             lines1 == IF flush THEN Append(lines, Trim(current_line)) ELSE lines
             line1 == IF flush THEN <<>> ELSE current_line
             line2 == IF line1 # <<>> THEN Append(line1, " ") ELSE line1
         IN  WrapWords_DropsLastLine(Tail(words), lines1, line2 \o word, max_width)

\* The loop of wrap_text over text.split_whitespace()
RECURSIVE WrapWords(_, _, _, _)
WrapWords(words, lines, current_line, max_width) ==
    IF words = <<>>
    THEN IF current_line # <<>> THEN Append(lines, Trim(current_line)) ELSE lines
    ELSE LET word == Head(words)
             flush == /\ Len(current_line) + Len(word) + 1 > max_width
                      /\ current_line # <<>>
             lines1 == IF flush THEN Append(lines, Trim(current_line)) ELSE lines
             line1 == IF flush THEN <<>> ELSE current_line
             line2 == IF line1 # <<>> THEN Append(line1, " ") ELSE line1
         IN  WrapWords(Tail(words), lines1, line2 \o word, max_width)

\* wrap_text
WrapText(text, max_width) ==
    LET lines == WrapWords(SplitWhitespace(text), <<>>, <<>>, max_width)
    IN  IF lines = <<>> THEN << <<>> >> ELSE lines

\* max_width of ui and render_message
MaxWidth(a) == SaturatingSub(a.width, WIDTH_MARGIN)

\* msg_height: the wrapped lines of the displayed text
MsgHeight(msg, a) == Len(WrapText(GetDisplayedText(msg), MaxWidth(a)))

\* The gap above message i: one line when the sender changes.
Gap(msgs, i) ==
    IF i > 1 /\ msgs[i - 1].is_bot # msgs[i].is_bot THEN 1 ELSE 0

\* First pass of ui: total_height of the first n messages
RECURSIVE HeightUpTo(_, _, _)
HeightUpTo(msgs, a, n) ==
    IF n = 0 THEN 0
    ELSE HeightUpTo(msgs, a, n - 1) + Gap(msgs, n) + MsgHeight(msgs[n], a)

TotalHeight(msgs, a) == HeightUpTo(msgs, a, Len(msgs))

\* start_offset of ui
StartOffset(total_height, height) ==
    IF total_height > height
    THEN LET base_offset == total_height - height
         IN  IF total_height > height /\ (total_height - base_offset) <= height
             THEN base_offset + Min(BUFFER_LINES, base_offset)
             ELSE base_offset
    ELSE 0

\* render_message: whether the box is rendered, where, and the height returned
RenderMessage(a, msgs, i, y_offset) ==
    LET gap == Gap(msgs, i)
        actual_y_offset == y_offset + gap
        msg_height == MsgHeight(msgs[i], a)
    IN  IF actual_y_offset + msg_height > a.height
        THEN [rendered |-> FALSE, y |-> actual_y_offset, height |-> msg_height,
              returned |-> gap]
        ELSE [rendered |-> TRUE, y |-> actual_y_offset, height |-> msg_height,
              returned |-> msg_height + gap]

\* Second pass of ui, from message i on: the boxes rendered, in order
RECURSIVE RenderFrom(_, _, _, _, _, _)
RenderFrom(msgs, a, start_offset, i, y_offset, current_height) ==
    IF i > Len(msgs) THEN <<>>
    ELSE LET total_msg_height == MsgHeight(msgs[i], a) + Gap(msgs, i)
         IN  IF current_height + total_msg_height <= start_offset
             THEN RenderFrom(msgs, a, start_offset, i + 1, y_offset,
                             current_height + total_msg_height)
             ELSE LET visible_start == IF current_height < start_offset
                                       THEN start_offset - current_height
                                       ELSE 0
                      r == RenderMessage(a, msgs, i, SaturatingSub(y_offset, visible_start))
                  IN  IF y_offset >= a.height THEN <<>>
                      ELSE (IF r.rendered
                            THEN << [index |-> i, y |-> r.y, height |-> r.height] >>
                            ELSE <<>>)
                           \o RenderFrom(msgs, a, start_offset, i + 1,
                                         y_offset + r.returned,
                                         current_height + total_msg_height)

\* ui: the message boxes of one draw of the chat area
Ui(msgs, a) ==
    RenderFrom(msgs, a, StartOffset(TotalHeight(msgs, a), a.height), 1, 0, 0)

(***************************************************************************)
(* The layout specification: histories as run_app builds them (a bot turn, *)
(* revealed character by character, then a user line, ...), drawn in       *)
(* chat areas of several sizes.                                            *)
(***************************************************************************)
LayoutTexts == { <<"a">>, <<"a"," ","b">>, <<"a"," ","b"," ","c"," ","d">> }
Areas == {[width |-> w, height |-> h] : w \in {12, 20}, h \in {5, 7}}

LayoutInit ==
    /\ flow = GraphB
    /\ order \in Orders(flow)
    /\ selected_style = STYLES[1]
    /\ current_node_id = START
    /\ waiting_for_input = FALSE
    /\ conversation_ended = FALSE
    /\ typing_in_progress = FALSE
    /\ messages = <<>>
    /\ input = <<>>
    /\ scroll_offset = 0
    /\ auto_scroll = TRUE
    /\ transcript_file = "writable"
    /\ transcript = <<>>
    /\ pc = "layout"
    /\ area \in Areas
    /\ frame = <<>>
    /\ wrapped_lines = <<>>

LayoutFixed ==
    UNCHANGED <<flow, order, selected_style, current_node_id, waiting_for_input,
                conversation_ended, typing_in_progress, input, pc, area,
                wrapped_lines, transcript_file>>

\* App::add_message(text, true)
LayoutAddBot(text) ==
    /\ Len(messages) < MaxLayoutMessages
    /\ IF messages = <<>> THEN TRUE ELSE ~messages[Len(messages)].is_bot
    /\ messages' = Append(messages, ChatMessageNew(text, TRUE))
    /\ auto_scroll' = TRUE
    /\ transcript' = Append(transcript, LogRecord(text, TRUE))
    /\ UNCHANGED <<scroll_offset, frame>>
    /\ LayoutFixed

\* The user message pushed by the Enter handler, once the bot turn is complete
LayoutAddUser(text) ==
    /\ Len(messages) < MaxLayoutMessages
    /\ messages # <<>>
    /\ messages[Len(messages)].is_bot
    /\ ~AnyBotIncomplete(messages)
    /\ messages' = Append(messages, UserMessage(text))
    /\ transcript' = Append(transcript, LogRecord(text, FALSE))
    /\ UNCHANGED <<scroll_offset, auto_scroll, frame>>
    /\ LayoutFixed

\* One animation pass, the word-boundary delay after the previous one
LayoutType ==
    /\ AnyBotIncomplete(messages)
    /\ messages' = [i \in 1..Len(messages) |->
                       IF messages[i].is_bot /\ ~messages[i].complete
                       THEN UpdateTyping(messages[i], WORD_DELAY)
                       ELSE messages[i]]
    /\ UNCHANGED <<scroll_offset, auto_scroll, transcript, frame>>
    /\ LayoutFixed

\* App::scroll_up(10) / App::scroll_down()
LayoutScroll ==
    /\ auto_scroll
    /\ \/ scroll_offset' = ScrollUp(scroll_offset, Len(messages), MIN_VISIBLE)
       \/ scroll_offset' = ScrollDown(scroll_offset)
    /\ auto_scroll' = FALSE
    /\ UNCHANGED <<messages, transcript, frame>>
    /\ LayoutFixed

\* terminal.draw(|f| ui(f, &app))
LayoutDraw ==
    /\ frame' = Ui(messages, area)
    /\ UNCHANGED <<messages, scroll_offset, auto_scroll, transcript>>
    /\ LayoutFixed

LayoutNext ==
    \/ \E text \in LayoutTexts : LayoutAddBot(text)
    \/ \E text \in LayoutTexts : LayoutAddUser(text)
    \/ LayoutType
    \/ LayoutScroll
    \/ LayoutDraw

LayoutSpec == LayoutInit /\ [][LayoutNext]_vars

(***************************************************************************)
(* wrap_text on its own: the displayed text of one message, wrapped as ui  *)
(* and render_message wrap it, for every text over a small alphabet and    *)
(* every width from 0 on.                                                  *)
(***************************************************************************)
WrapAlphabet == {"a", "b", " ", "\n"}
WrapTexts == UNION {[1..n -> WrapAlphabet] : n \in 0..MaxWrapLen}
\* Chat areas whose max_width is 0 (also by saturation), 1, ..., MaxWrapWidth
WrapAreas ==
    {[width |-> w, height |-> 5] :
        w \in {WIDTH_MARGIN - 1} \cup {WIDTH_MARGIN + k : k \in 0..MaxWrapWidth}}

WrapInit ==
    /\ flow = GraphB
    /\ order \in Orders(flow)
    /\ selected_style = STYLES[1]
    /\ current_node_id = START
    /\ waiting_for_input = FALSE
    /\ conversation_ended = FALSE
    /\ typing_in_progress = FALSE
    /\ \E text \in WrapTexts : messages = <<UserMessage(text)>>
    /\ input = <<>>
    /\ scroll_offset = 0
    /\ auto_scroll = TRUE
    /\ transcript_file = "writable"
    /\ transcript = <<>>
    /\ pc = "wrap"
    /\ area \in WrapAreas
    /\ frame = <<>>
    /\ wrapped_lines = <<>>

\* let wrapped_lines = wrap_text(&display_text, max_width)
WrapCall ==
    /\ pc = "wrap"
    /\ wrapped_lines' = WrapText(GetDisplayedText(messages[1]), MaxWidth(area))
    /\ pc' = "wrapped"
    /\ UNCHANGED <<flow, order, selected_style, current_node_id,
                   waiting_for_input, conversation_ended, typing_in_progress,
                   messages, input, scroll_offset, auto_scroll, transcript,
                   transcript_file, area, frame>>

WrapNext == WrapCall

WrapSpec == WrapInit /\ [][WrapNext]_vars

(***************************************************************************)
(* The scroll keys over a long history: the loop of run_app with its       *)
(* animation pass and key handlers as above, the dialogue replaced by      *)
(* appends of two-character messages, a bot turn and a user line in turn,  *)
(* so that the history outgrows the 10 messages scroll_up is called with.  *)
(***************************************************************************)
ScrollText == <<"a", "b">>

ScrollInit ==
    /\ flow = GraphB
    /\ order \in Orders(flow)
    /\ selected_style = STYLES[1]
    /\ current_node_id = START
    /\ waiting_for_input = TRUE
    /\ conversation_ended = FALSE
    /\ typing_in_progress = FALSE
    /\ messages = <<>>
    /\ input = <<>>
    /\ scroll_offset = 0
    /\ auto_scroll = TRUE
    /\ transcript_file = "writable"
    /\ transcript = <<>>
    /\ pc = "top"
    /\ area = DefaultArea
    /\ frame = <<>>
    /\ wrapped_lines = <<>>

\* App::add_message(text, true) at the top of the loop
ScrollAddBot ==
    /\ pc = "top"
    /\ Len(messages) < MaxScrollMessages
    /\ IF messages = <<>> THEN TRUE ELSE ~messages[Len(messages)].is_bot
    /\ messages' = Append(messages, ChatMessageNew(ScrollText, TRUE))
    /\ auto_scroll' = TRUE
    /\ transcript' = Append(transcript, LogRecord(ScrollText, TRUE))
    /\ pc' = "animate"
    /\ UNCHANGED <<current_node_id, waiting_for_input, conversation_ended,
                   typing_in_progress, input, scroll_offset>>
    /\ Fixed

\* The user message pushed by the Enter handler, once the bot turn is complete
ScrollAddUser ==
    /\ pc = "input"
    /\ Len(messages) < MaxScrollMessages
    /\ messages # <<>>
    /\ messages[Len(messages)].is_bot
    /\ ~typing_in_progress
    /\ messages' = Append(messages, UserMessage(ScrollText))
    /\ transcript' = Append(transcript, LogRecord(ScrollText, FALSE))
    /\ LoopAgain
    /\ UNCHANGED <<current_node_id, waiting_for_input, conversation_ended,
                   input, scroll_offset, auto_scroll>>

ScrollNext ==
    \/ ScrollAddBot
    \/ NothingToEmit
    \/ \E dt \in Delays : Animate(dt)
    \/ PollTimeout
    \/ ScrollAddUser
    \/ KeyUp
    \/ KeyDown

ScrollSpec == ScrollInit /\ [][ScrollNext]_vars

(***************************************************************************)
(* Properties.                                                             *)
(***************************************************************************)
\* The step on which the Enter handler accepts the line in the input buffer:
\* the only step from the input poll that appends to the history.
AcceptedLine ==
    /\ pc = "input"
    /\ Len(messages') > Len(messages)
    /\ current_node_id \in DOMAIN flow

\* The line as routing sees it: trimmed, lower-cased.
Normalized(line) == ToLowercase(Trim(line))

\* The option keywords of node n that, lower-cased, are a prefix of u.
MatchingKeys(n, u) == {k \in DOMAIN n.options : StartsWith(u, ToLowercase(k))}

ExitWords == { <<"n","o">>, <<"b","y","e">>, <<"q","u","i","t">>, <<"e","x","i","t">> }

\* The history before and after a step agree on the messages of the former.
HistoryKept ==
    /\ Len(messages') >= Len(messages)
    /\ \A i \in 1..Len(messages) :
          /\ messages'[i].text = messages[i].text
          /\ messages'[i].is_bot = messages[i].is_bot

SomeBotIncomplete ==
    \E i \in 1..Len(messages) : messages[i].is_bot /\ ~messages[i].complete

\* C1: an accepted line is routed by strict priority: to the target of an
\* option whose lower-cased keyword is a prefix of the normalized line;
\* otherwise, if the line is an exit word, to exit_conversation; otherwise to
\* the node's default next node if it has one; otherwise the node stays.
C1_RoutingPriority ==
    [][AcceptedLine =>
        LET n == flow[current_node_id]
            u == Normalized(input)
            matching == MatchingKeys(n, u)
        IN  IF matching # {}
            THEN \E k \in matching : current_node_id' = n.options[k]
            ELSE IF u \in ExitWords
            THEN current_node_id' = EXIT_CONVERSATION
            ELSE IF n.next_node # None
            THEN current_node_id' = Unwrap(n.next_node)
            ELSE current_node_id' = current_node_id]_vars

\* C1 witness: at node a of GraphA, whose keyword "no" is also an exit word, the
\* line "no" was accepted and the option's target b was chosen, not the exit.
C1_Witness ==
    /\ flow = GraphA
    /\ Len(messages) = 4
    /\ messages[3].text = MessageText(GraphA[NodeA], selected_style)
    /\ messages[4] = UserMessage(<<"n","o">>)
    /\ current_node_id = NodeB
    /\ ~waiting_for_input

\* C2: routing is deterministic across runs: whatever order the options
\* mapping enumerates in, the same line at the same node leads to the same
\* next node as in this run.
C2_DeterministicRouting ==
    [][AcceptedLine =>
        \A e \in Enumerations(DOMAIN flow[current_node_id].options) :
            LET t == RouteTarget(flow[current_node_id], e, Normalized(input))
            IN  current_node_id' = IF IsSome(t) THEN Unwrap(t) ELSE current_node_id]_vars

\* C3: submitting an empty or whitespace-only line while awaiting input is a
\* no-op: no message is appended, the node stays, the session keeps waiting.
C3_BlankLineNoOp ==
    [][(/\ KeyEnter
        /\ waiting_for_input /\ ~conversation_ended /\ ~SomeBotIncomplete
        /\ Trim(input) = <<>>)
       => /\ messages' = messages
          /\ current_node_id' = current_node_id
          /\ waiting_for_input' /\ ~conversation_ended']_vars

\* C4 as stated: in every state with an incomplete bot message, a submit is
\* ignored and the session keeps running.
C4_SubmitIgnoredWhileTyping ==
    [][(KeyEnter /\ SomeBotIncomplete)
       => /\ messages' = messages
          /\ current_node_id' = current_node_id
          /\ conversation_ended' = conversation_ended
          /\ input' = input
          /\ pc' = "top"]_vars

\* C4 as amended: in every state in which the conversation has not ended and
\* some bot message is incomplete, a submit is ignored: nothing is appended,
\* node, ended flag and input buffer are unchanged, the loop goes on.
C4_SubmitIgnoredWhileTypingNotEnded ==
    [][(KeyEnter /\ ~conversation_ended /\ SomeBotIncomplete)
       => /\ messages' = messages
          /\ current_node_id' = current_node_id
          /\ conversation_ended' = conversation_ended
          /\ input' = input
          /\ pc' = "top"]_vars

\* C4 witness: a line is typed and the poll is about to read a key while the
\* bot turn is still being revealed.
C4_Witness ==
    /\ pc = "input"
    /\ ~conversation_ended
    /\ SomeBotIncomplete
    /\ input = <<"n","o">>

\* C5: the session is routed to exit_conversation only by the exit rule (no
\* keyword matches and the normalized line equals an exit word) or by an
\* option or default that names that node; a line that only starts with an
\* exit word does not take the exit rule.
C5_ExitOnlyOnExactWord ==
    [][(AcceptedLine /\ ~waiting_for_input' /\ current_node_id' = EXIT_CONVERSATION)
       => LET n == flow[current_node_id]
              u == Normalized(input)
              matching == MatchingKeys(n, u)
          IN  \/ matching = {} /\ u \in ExitWords
              \/ \E k \in matching : n.options[k] = EXIT_CONVERSATION
              \/ matching = {} /\ n.next_node = Some(EXIT_CONVERSATION)]_vars

\* C5 witness: "no t" was accepted at start of GraphA, where it matches no
\* keyword, and the session stayed at start.
C5_Witness ==
    /\ flow = GraphA
    /\ Len(messages) = 3
    /\ messages[2] = UserMessage(<<"n","o"," ","t">>)
    /\ current_node_id = START
    /\ waiting_for_input

\* The list of the help message for the keywords in order e: each quoted,
\* comma-separated, "or" before the last.
RECURSIVE ListedOnce(_)
ListedOnce(e) ==
    IF Len(e) = 1 THEN <<"'">> \o e[1] \o <<"'">>
    ELSE IF Len(e) = 2
    THEN <<"'">> \o e[1] \o <<"'", " ", "o", "r", " ", "'">> \o e[2] \o <<"'">>
    ELSE <<"'">> \o e[1] \o <<"'", ",", " ">> \o ListedOnce(Tail(e))

\* C6: a line that matches no keyword, is no exit word, at a node without
\* default, leaves the node unchanged and appends, after the user message,
\* exactly one bot help message that lists every keyword of the node once
\* ("No options available." without keywords); the session keeps waiting.
C6_UnrecognizedInputHelp ==
    [][(/\ AcceptedLine
        /\ MatchingKeys(flow[current_node_id], Normalized(input)) = {}
        /\ Normalized(input) \notin ExitWords
        /\ flow[current_node_id].next_node = None)
       => LET keys == DOMAIN flow[current_node_id].options
              k == Len(messages)
          IN  /\ current_node_id' = current_node_id
              /\ HistoryKept
              /\ Len(messages') = k + 2
              /\ ~messages'[k + 1].is_bot /\ messages'[k + 1].text = input
              /\ messages'[k + 2].is_bot
              /\ IF keys = {}
                 THEN messages'[k + 2].text = Lit(HELP_PREFIX) \o Lit(NO_OPTIONS)
                 ELSE \E e \in Enumerations(keys) :
                         messages'[k + 2].text = Lit(HELP_PREFIX) \o ListedOnce(e)
              /\ waiting_for_input' /\ ~conversation_ended'
              /\ pc' = "top"]_vars

\* C6 witness: at start of GraphA (two keywords, no default) the line "n" was
\* answered by the help message.
C6_Witness ==
    /\ flow = GraphA
    /\ Len(messages) = 3
    /\ messages[2] = UserMessage(<<"n">>)
    /\ messages[3].is_bot
    /\ messages[3].text # MessageText(GraphA[START], selected_style)
    /\ current_node_id = START

\* C7: when the node id to emit is absent from the graph, the emit step
\* appends exactly one bot message, the error message naming the id, ends the
\* conversation and does not panic; afterwards the node id never changes and
\* nothing more is appended.
C7_MissingNodeEndsSession ==
    [][/\ (pc = "top" /\ ~waiting_for_input /\ ~conversation_ended
              /\ current_node_id \notin DOMAIN flow)
          => \/ UNCHANGED vars
             \/ /\ HistoryKept
                /\ Len(messages') = Len(messages) + 1
                /\ messages'[Len(messages')].is_bot
                /\ messages'[Len(messages')].text =
                      Lit(ERROR_PREFIX) \o current_node_id \o Lit(ERROR_SUFFIX)
                /\ conversation_ended'
                /\ current_node_id' = current_node_id
                /\ pc' # "panicked"
       /\ (conversation_ended /\ current_node_id \notin DOMAIN flow)
          => /\ conversation_ended'
             /\ current_node_id' = current_node_id
             /\ HistoryKept
             /\ Len(messages') = Len(messages)
             /\ pc' # "panicked"]_vars

\* C7 witness: the session ended on the error message for a node id that is
\* not in the graph, and the loop went on to reveal the whole message.
C7_Witness ==
    /\ current_node_id \notin DOMAIN flow
    /\ conversation_ended
    /\ messages[Len(messages)].is_bot
    /\ messages[Len(messages)].text =
          Lit(ERROR_PREFIX) \o current_node_id \o Lit(ERROR_SUFFIX)
    /\ messages[Len(messages)].complete
    /\ pc = "input"

\* C8: Ended is terminal: once the ended flag is set it stays set, the node
\* id never changes, no message is appended or altered, the input buffer is
\* not modified, and a submit terminates the session.
C8_EndedIsTerminal ==
    [][conversation_ended
       => /\ conversation_ended'
          /\ current_node_id' = current_node_id
          /\ HistoryKept
          /\ Len(messages') = Len(messages)
          /\ input' = input
          /\ pc' \in {"top", "animate", "input", "exited"}
          /\ KeyEnter => pc' = "exited"]_vars

\* C8 witness: the conversation has ended on an end node, its farewell has
\* been revealed over several iterations of the loop, each of which polled
\* for input, and the poll is about to read another key.
C8_Witness ==
    /\ conversation_ended
    /\ current_node_id \in DOMAIN flow
    /\ pc = "input"
    /\ Len(messages[Len(messages)].text) >= 3
    /\ messages[Len(messages)].complete

\* The line "no" was accepted as the first user line, at start, none of whose
\* keywords is a prefix of "no", in a graph that has exit_conversation.
SubmittedNoAtStart ==
    /\ START \in DOMAIN flow
    /\ EXIT_CONVERSATION \in DOMAIN flow
    /\ MatchingKeys(flow[START], <<"n","o">>) = {}
    /\ Len(messages) >= 2
    /\ messages[1].complete
    /\ ~messages[2].is_bot
    /\ Normalized(messages[2].text) = <<"n","o">>

\* When the bot turn after the first user line has been emitted.
ReplyEmitted == Len(messages) >= 3

\* C9 as stated: for every graph with start and exit_conversation, "no" at
\* start routes to exit_conversation, and once that node's turn is emitted
\* the session is Ended.
C9_NoAtStartEnds ==
    SubmittedNoAtStart =>
        /\ Len(messages) = 2 => current_node_id = EXIT_CONVERSATION
        /\ ReplyEmitted => conversation_ended

\* C9 as amended: the same for every graph whose exit_conversation node has
\* the kind "end"; the emitted turn is that node's text.
C9_NoAtStartEndsAtEndNode ==
    (SubmittedNoAtStart /\ flow[EXIT_CONVERSATION].node_type = "end") =>
        /\ current_node_id = EXIT_CONVERSATION
        /\ ReplyEmitted =>
              /\ conversation_ended
              /\ Len(messages) = 3
              /\ messages[3].is_bot
              /\ messages[3].text =
                    IF selected_style \in DOMAIN flow[EXIT_CONVERSATION].message
                    THEN flow[EXIT_CONVERSATION].message[selected_style]
                    ELSE Lit(APOLOGY)

\* C9 witness: in GraphA "no" was submitted at start, the turn of
\* exit_conversation was emitted and the conversation has ended.
C9_Witness ==
    /\ flow = GraphA
    /\ SubmittedNoAtStart
    /\ Len(messages) = 3
    /\ messages[3].text = <<"b","y","e">>
    /\ current_node_id = EXIT_CONVERSATION
    /\ conversation_ended

\* C10: with auto-scroll enabled and the content taller than the viewport, a
\* draw of the history renders the newest message, wholly inside the viewport.
C10_NewestMessageDrawn ==
    [][(/\ LayoutDraw
        /\ auto_scroll
        /\ messages # <<>>
        /\ TotalHeight(messages, area) > area.height)
       => \E k \in 1..Len(frame') :
             /\ frame'[k].index = Len(messages)
             /\ frame'[k].y >= 0
             /\ frame'[k].y + frame'[k].height <= area.height]_vars

\* The step appends a bot message to the history.
BotAppended ==
    /\ Len(messages') > Len(messages)
    /\ messages'[Len(messages')].is_bot

\* The first line of the content that a draw of history msgs shows.
ViewportStart(msgs) == StartOffset(TotalHeight(msgs, area), area.height)

\* C11: after a manual scroll (auto-scroll is off, which only a scroll action
\* brings about), a step that appends a bot message leaves auto-scroll off and
\* does not move the viewport: neither the scroll offset nor the first line
\* the next draw shows.
C11_ManualScrollSurvivesAppend ==
    [][(~auto_scroll /\ BotAppended)
       => /\ ~auto_scroll'
          /\ scroll_offset' = scroll_offset
          /\ ViewportStart(messages') = ViewportStart(messages)]_vars

\* The text has no space character.
NoSpaces(text) == \A k \in 1..Len(text) : text[k] # " "

C13_RevealAfterDelay ==
    [][/\ WORD_DELAY > BASE_DELAY
       /\ \A dt \in Delays :
             Animate(dt) =>
                \A i \in 1..Len(messages) :
                   LET d == messages[i].displayed_chars
                       last == messages[i].last_char_time
                   IN  (messages[i].is_bot /\ messages'[i].displayed_chars = d + 1)
                       => /\ messages'[i].last_char_time = <<0>>
                          /\ d > 0 =>
                                /\ last # <<>>
                                /\ last[1] + dt >=
                                      IF messages[i].text[d] = " "
                                      THEN WORD_DELAY ELSE BASE_DELAY]_vars

\* C13 witness: the first bot turn is "o k" and the character after its
\* space has been revealed.
C13_Witness ==
    /\ Len(messages) >= 1
    /\ messages[1].is_bot
    /\ messages[1].text = <<"o", " ", "k">>
    /\ messages[1].displayed_chars = 3
    /\ pc = "input"

\* The loop of run_app has been left.
LoopLeft == pc \in {"exited", "panicked"}

\* C14: while the loop keeps ticking and time advances, every bot message
\* appended to the history is eventually complete, whatever text the node
\* carries and whether or not input events arrive.
C14_EveryBotMessageCompletes ==
    \A i \in 1..MaxMessages :
        (Len(messages) >= i /\ messages[i].is_bot)
        ~> (LoopLeft \/ (Len(messages) >= i /\ messages[i].complete))

\* The lines joined with single spaces.
RECURSIVE JoinLines(_)
JoinLines(lines) ==
    IF lines = <<>> THEN <<>>
    ELSE IF Len(lines) = 1 THEN lines[1]
    ELSE lines[1] \o <<" ">> \o JoinLines(Tail(lines))

\* C15: for every text and every maximum width, the lines wrap_text returns,
\* joined with single spaces and split on whitespace, are exactly the
\* whitespace-delimited words of the text in order (so no word is split);
\* there is at least one line, and for a text without words exactly one,
\* the empty line.
C15_WrapKeepsWords ==
    pc = "wrapped" =>
        LET words == SplitWhitespace(GetDisplayedText(messages[1]))
        IN  /\ Len(wrapped_lines) >= 1
            /\ SplitWhitespace(JoinLines(wrapped_lines)) = words
            /\ \A k \in 1..Len(wrapped_lines) :
                  \A w \in 1..Len(SplitWhitespace(wrapped_lines[k])) :
                     \E j \in 1..Len(words) :
                        SplitWhitespace(wrapped_lines[k])[w] = words[j]
            /\ words = <<>> => wrapped_lines = << <<>> >>

\* C15 witness: a text of two words, each longer than the maximum width,
\* with whitespace around them, was wrapped into two lines.
C15_Witness ==
    /\ pc = "wrapped"
    /\ messages[1].text = <<" ", "a", "b", "\n", "b">>
    /\ MaxWidth(area) = 1
    /\ wrapped_lines = << <<"a", "b">>, <<"b">> >>

\* The scroll offset is not negative and at most max(0, messages - 10).
OffsetInRange ==
    /\ scroll_offset >= 0
    /\ scroll_offset <= (IF Len(messages) > 10 THEN Len(messages) - 10 ELSE 0)

\* C16: through every sequence of scroll keys and appends, the scroll offset
\* is never negative and never above max(0, number of messages - 10); a
\* scroll key changes the offset by at most one and turns auto-scroll off.
C16_ScrollOffsetBounded ==
    [][/\ OffsetInRange
       /\ OffsetInRange'
       /\ (KeyUp \/ KeyDown)
          => /\ scroll_offset' \in {scroll_offset - 1, scroll_offset, scroll_offset + 1}
             /\ ~auto_scroll']_vars

\* C16 witness: with 13 messages the view was scrolled up as far as it goes,
\* three messages, and auto-scroll is off.
C16_Witness ==
    /\ Len(messages) = 13
    /\ scroll_offset = 3
    /\ ~auto_scroll
    /\ pc = "top"

\* C17: the transcript has exactly one record per message of the history, in
\* the order of the history, each with the sender and the text of its
\* message, whether or not the writes succeed; a failing write does not
\* abort the session.
C17_TranscriptMatchesHistory ==
    /\ Len(transcript) = Len(messages)
    /\ \A i \in 1..Len(messages) :
          /\ transcript[i].sender = (IF messages[i].is_bot THEN "Bot" ELSE "User")
          /\ transcript[i].text = messages[i].text
    /\ pc # "panicked"

\* C17 witness: every write has failed, and the session has gone through a
\* bot turn, a user line and a reply, and goes on.
C17_Witness ==
    /\ Len(messages) = 3
    /\ ~messages[2].is_bot
    /\ messages[3].is_bot
    /\ \A i \in 1..Len(transcript) : ~transcript[i].written
    /\ ~conversation_ended
    /\ pc = "input"

\* C18: the history is append-only: over every step of the session the
\* history before the step is a prefix of the history after it as to text
\* and sender; nothing is removed, reordered or rewritten.
C18_HistoryAppendOnly ==
    [][/\ Len(messages') >= Len(messages)
       /\ \A i \in 1..Len(messages) :
             /\ messages'[i].text = messages[i].text
             /\ messages'[i].is_bot = messages[i].is_bot]_vars

\* C18 witness: a history of five messages, bot turns and user lines, the
\* last one still being revealed over the earlier ones.
C18_Witness ==
    /\ Len(messages) = 5
    /\ ~messages[2].is_bot
    /\ ~messages[4].is_bot
    /\ messages[5].is_bot
    /\ messages[5].displayed_chars >= 1
    /\ pc = "input"

\* C19: wherever a submitted line would be routed (the poll is about to read
\* a key, the conversation has not ended, no bot message is incomplete, the
\* input buffer is not empty) the current node id is in the graph; the
\* unwrap of the node lookup in the Enter handler never panics.
C19_RoutedNodePresent ==
    /\ (pc = "input" /\ ~conversation_ended /\ ~SomeBotIncomplete /\ input # <<>>)
          => current_node_id \in DOMAIN flow
    /\ pc # "panicked"

\* C19 witness: in GraphB, whose only keyword leads to a node that is not in
\* the graph and which has no exit_conversation, a first line was answered
\* by the help message and the line "Y" is typed, ready to be submitted.
C19_Witness ==
    /\ flow = GraphB
    /\ Len(messages) = 3
    /\ ~SomeBotIncomplete
    /\ ~conversation_ended
    /\ input = <<"Y">>
    /\ pc = "input"

\* C20: whenever the poll is about to read a key, an incomplete message, if
\* there is one, is a bot message and the last of the history (so there is at
\* most one); and in every state every user message is complete with all its
\* characters revealed.
C20_OneIncompleteLastBot ==
    /\ pc = "input" =>
          /\ Cardinality({i \in 1..Len(messages) : ~messages[i].complete}) <= 1
          /\ \A i \in 1..Len(messages) :
                ~messages[i].complete => (messages[i].is_bot /\ i = Len(messages))
    /\ \A i \in 1..Len(messages) :
          ~messages[i].is_bot
          => /\ messages[i].complete
             /\ messages[i].displayed_chars = Len(messages[i].text)

\* C20 witness: a key is about to be read while the reply to the first user
\* line is partly revealed; the user line and the first bot turn are complete.
C20_Witness ==
    /\ pc = "input"
    /\ Len(messages) = 3
    /\ messages[1].complete
    /\ ~messages[2].is_bot /\ messages[2].complete
    /\ messages[3].is_bot /\ ~messages[3].complete
    /\ messages[3].displayed_chars >= 1

\* The text is one a bot turn can carry: the text of a node of the graph for
\* the selected style (or the apology), a help message, or the error message
\* for a node id that is not in the graph.
IsBotReply(text) ==
    \/ \E n \in DOMAIN flow :
          text = (IF selected_style \in DOMAIN flow[n].message
                  THEN flow[n].message[selected_style]
                  ELSE Lit(APOLOGY))
    \/ StartsWith(text, Lit(HELP_PREFIX))
    \/ StartsWith(text, Lit(ERROR_PREFIX))

\* C21: the history alternates senders, starting with a bot message: the
\* first message is a bot message and no two neighbours have the same
\* sender; every user line is followed by one bot message (a node's text,
\* the help message or the missing-node error) before the next key is read,
\* so that no second user line can be accepted before it.
C21_SendersAlternate ==
    /\ messages # <<>> => messages[1].is_bot
    /\ \A i \in 1..(Len(messages) - 1) :
          /\ messages[i].is_bot # messages[i + 1].is_bot
          /\ ~messages[i].is_bot => IsBotReply(messages[i + 1].text)
    /\ (pc = "input" /\ messages # <<>>) => messages[Len(messages)].is_bot

\* C21 witness: after a first line answered by the help message, a second
\* line was accepted and routed, and its bot turn is about to be emitted.
C21_Witness ==
    /\ Len(messages) = 4
    /\ StartsWith(messages[3].text, Lit(HELP_PREFIX))
    /\ ~messages[4].is_bot
    /\ ~waiting_for_input
    /\ pc = "top"

====
